---- MODULE Spec2Model ----
(***************************************************************************)
(* Model of src/main.py: an HTTP benchmark CLI.  main() checks the command *)
(* line, loads the host list, validates every URL and the count, submits   *)
(* len(hosts) * count calls of perform_request to a thread pool and folds  *)
(* the results, in completion order, into a per-host statistics map which  *)
(* print_stats reports.                                                    *)
(*                                                                         *)
(* Strings are sequences of one-character strings, so that the regular     *)
(* expression, str.split and str.strip are computed character by           *)
(* character.  An optional value is None or Some(v).                       *)
(***************************************************************************)
EXTENDS Integers, Sequences, FiniteSets, TLC

VARIABLES
    args,       \* argparse namespace: hosts (-H), file (-F), count (-C)
    fs,         \* the file system as seen by open(): readable, text
    pc,         \* position of main()
    hosts,      \* the local variable hosts of main()
    vi,         \* index of the next host the validation loop looks at
    stats,      \* the dict stats: host -> success, failed, errors, times
    futures,    \* the dict futures in insertion order: host, state, result
    yielded,    \* indices of the futures as_completed has already yielded
    out,        \* what was printed to stdout, one entry per print call
    issued,     \* number of requests.get calls made so far
    opened,     \* number of open() calls on the host file
    report,     \* the output of print_stats, None before it ran
    foldA,      \* fold harness: stats folded in arrival order
    foldB,      \* fold harness: stats folded in another order
    pending,    \* fold harness: results folded into foldA, not yet into foldB
    fed         \* fold harness: number of results fed so far

vars == <<args, fs, pc, hosts, vi, stats, futures, yielded, out, issued,
          opened, report, foldA, foldB, pending, fed>>

runVars == <<args, fs, pc, hosts, vi, stats, futures, yielded, out, issued,
             opened, report>>

foldVars == <<foldA, foldB, pending, fed>>

\* Python's None, and a value that is not None
None == <<>>
Some(v) == <<v>>

----------------------------------------------------------------------------
(* Bounds of the model *)

\* longest host list (inline entries, or lines of the host file)
MaxHosts == 2
\* largest value of -C; the smallest is MinCount
MaxCount == 2
\* most futures of one run: len(hosts) * count
MaxTasks == 4
\* most results fed to the fold harness
MaxFeed == 3
\* most futures of one run of the specification with fairness
MaxLiveTasks == 2

MinCount == 0 - 1

----------------------------------------------------------------------------
(* Strings *)

Range(s) == {s[i] : i \in 1..Len(s)}

\* the characters \s matches (ASCII)
Whitespace == {" ", "\t", "\n", "\r", "\f"}

Lower == {"a","b","c","d","e","f","g","h","i","j","k","l","m",
          "n","o","p","q","r","s","t","u","v","w","x","y","z"}
Upper == {"A","B","C","D","E","F","G","H","I","J","K","L","M",
          "N","O","P","Q","R","S","T","U","V","W","X","Y","Z"}
Digit == {"0","1","2","3","4","5","6","7","8","9"}

\* the character class [A-Za-z0-9.-]
HostChars == Lower \cup Upper \cup Digit \cup {".", "-"}

Scheme == <<"h","t","t","p","s",":","/","/">>

\* index of the first occurrence of character c in s, Len(s)+1 if none
RECURSIVE FindFrom(_, _, _)
FindFrom(s, c, i) ==
    IF i > Len(s) THEN Len(s) + 1
    ELSE IF s[i] = c THEN i
    ELSE FindFrom(s, c, i + 1)

\* https://[A-Za-z0-9.-]+(?:/[^\s]*)? matched against the whole of s
FullMatch(s) ==
    /\ Len(s) > Len(Scheme)
    /\ SubSeq(s, 1, Len(Scheme)) = Scheme
    /\ LET rest == SubSeq(s, Len(Scheme) + 1, Len(s))
           k    == FindFrom(rest, "/", 1)
       IN  /\ k > 1
           /\ \A i \in 1..(k - 1) : rest[i] \in HostChars
           /\ \A i \in (k + 1)..Len(rest) : rest[i] \notin Whitespace

\* URL_REGEX.match(url): ^ anchors at the start, $ matches at the end of the
\* string and also just before a newline that ends the string
RegexMatch(url) ==
    \/ FullMatch(url)
    \/ /\ Len(url) > 0
       /\ url[Len(url)] = "\n"
       /\ FullMatch(SubSeq(url, 1, Len(url) - 1))

validate_host(url) == RegexMatch(url)

\* str.split(sep) for a one-character separator: the pieces between the
\* occurrences of sep, one more than there are occurrences
Split(s, sep) ==
    LET cuts   == {i \in 1..Len(s) : s[i] = sep}
        n      == Cardinality(cuts)
        Cut(j) == IF j = 0 THEN 0
                  ELSE IF j = n + 1 THEN Len(s) + 1
                  ELSE CHOOSE i \in cuts :
                          Cardinality({x \in cuts : x < i}) = j - 1
    IN  [j \in 1..(n + 1) |-> SubSeq(s, Cut(j - 1) + 1, Cut(j) - 1)]

RECURSIVE LStrip(_)
LStrip(s) ==
    IF s /= <<>> /\ Head(s) \in Whitespace THEN LStrip(Tail(s)) ELSE s

RECURSIVE RStrip(_)
RStrip(s) ==
    IF s /= <<>> /\ s[Len(s)] \in Whitespace
    THEN RStrip(SubSeq(s, 1, Len(s) - 1)) ELSE s

\* str.strip()
Strip(s) == RStrip(LStrip(s))

\* the lines a text file yields when iterated
FileLines(text) ==
    LET parts == Split(text, "\n")
    IN  IF parts[Len(parts)] = <<>> THEN SubSeq(parts, 1, Len(parts) - 1)
        ELSE parts

RECURSIVE StripNonBlank(_)
StripNonBlank(lines) ==
    IF lines = <<>> THEN <<>>
    ELSE IF Strip(Head(lines)) /= <<>>
         THEN <<Strip(Head(lines))>> \o StripNonBlank(Tail(lines))
         ELSE StripNonBlank(Tail(lines))

\* load_hosts_from_file on a readable file
load_hosts_from_file(text) == StripNonBlank(FileLines(text))

\* truth value of an optional string argument: None and "" are false
Truthy(x) == x /= None /\ x[1] /= <<>>

RECURSIVE Join(_, _)
Join(list, sep) ==
    IF list = <<>> THEN <<>>
    ELSE IF Len(list) = 1 THEN list[1]
    ELSE list[1] \o <<sep>> \o Join(Tail(list), sep)

RECURSIVE Concat(_)
Concat(list) ==
    IF list = <<>> THEN <<>> ELSE Head(list) \o Concat(Tail(list))

----------------------------------------------------------------------------
(* Inputs *)

UrlA == Scheme \o <<"a">>
UrlB == Scheme \o <<"b", "/", "x">>
WrongScheme == <<"h","t","t","p",":","/","/","a">>
EmbeddedSpace == Scheme \o <<"a", " ", "b">>

\* the entries an inline list is made of: "" is what "a,,b" holds
InlineEntries == {UrlA, UrlB, WrongScheme, EmbeddedSpace, <<>>}

\* the lines a host file is made of, each followed by a newline
FileEntries == {UrlA, <<" ">> \o UrlB \o <<" ">>, WrongScheme, <<>>}

ListsOf(S, lo, hi) == UNION {[1..n -> S] : n \in lo..hi}

TaskBound(n, c) == c < 1 \/ n * c <= MaxTasks

HostsArgs(c) ==
    {None} \cup {Some(Join(l, ",")) : l \in {m \in ListsOf(InlineEntries, 1, MaxHosts)
                                           : TaskBound(Len(m), c)}}

FileTexts(c) ==
    {Concat([i \in 1..Len(l) |-> l[i] \o <<"\n">>]) :
        l \in {m \in ListsOf(FileEntries, 0, MaxHosts) : TaskBound(Len(m), c)}}

HostFile == <<"f">>

NoFile == [readable |-> FALSE, text |-> <<>>]

FileSystems(c) ==
    {NoFile} \cup {[readable |-> TRUE, text |-> t] : t \in FileTexts(c)}

----------------------------------------------------------------------------
(* Diagnostics printed by main() *)

\* each line is the text of the message and the value it interpolates

\* line 82
MsgBothModes == [text |-> "cannot use -H and -F together", value |-> <<>>]
\* line 95
MsgNoMode == [text |-> "one of -H or -F is required", value |-> <<>>]
\* line 106
MsgCount == [text |-> "count must be a positive number", value |-> <<>>]
\* line 23
MsgFile(path) == [text |-> "error reading file", value |-> path]
\* line 101
MsgFormat(h) == [text |-> "bad URL format, expected https://example.com",
                 value |-> h]

----------------------------------------------------------------------------
(* What requests.get can do: return a response with a status code after   *)
(* some time, or raise a RequestException.                                 *)

Statuses == {199, 200, 399, 400, 599, 600}
Elapsed == {1, 2}

RequestException == <<>>
Outcomes == {RequestException} \cup (Statuses \X Elapsed)

\* the outcomes the requests of a whole run are drawn from
RunOutcomes == {RequestException, <<200, 1>>, <<200, 2>>, <<404, 1>>,
                <<600, 2>>}

\* the exception of requests.get is not caught
perform_request_Reraise(outcome) ==
    IF outcome = RequestException
    THEN [raised |-> TRUE, value |-> <<None, None>>]
    ELSE [raised |-> FALSE, value |-> <<Some(outcome[1]), Some(outcome[2])>>]

\* lines 26-34: what the future holds once the call is over
perform_request(outcome) ==
    IF outcome = RequestException
    THEN [raised |-> FALSE, value |-> <<None, None>>]
    ELSE [raised |-> FALSE, value |-> <<Some(outcome[1]), Some(outcome[2])>>]

NoResult == [raised |-> FALSE, value |-> <<None, None>>]

----------------------------------------------------------------------------
(* The statistics *)

\* the comprehension leaves out the first host of the list
NewStats_SkipsFirst(hs) ==
    [h \in Range(hs) \ {hs[i] : i \in {1} \cap DOMAIN hs} |->
        [success |-> 0, failed |-> 0, errors |-> 0, times |-> <<>>]]

\* lines 110-113: one zeroed record per distinct host
NewStats(hs) ==
    [h \in Range(hs) |-> [success |-> 0, failed |-> 0, errors |-> 0,
                          times |-> <<>>]]

\* the elapsed time is appended for a 400-599 status as well
FoldResult_AppendOnFailed(st, host, value) ==
    LET status  == value[1]
        elapsed == value[2]
    IN  IF status = None
        THEN [st EXCEPT ![host].errors = @ + 1]
        ELSE IF 200 <= status[1] /\ status[1] < 400
        THEN [st EXCEPT ![host].success = @ + 1,
                        ![host].times = Append(@, elapsed[1])]
        ELSE IF 400 <= status[1] /\ status[1] < 600
        THEN [st EXCEPT ![host].failed = @ + 1,
                        ![host].times = Append(@, elapsed[1])]
        ELSE [st EXCEPT ![host].errors = @ + 1]

\* the elapsed time replaces the list instead of being appended to it
FoldResult_KeepLast(st, host, value) ==
    LET status  == value[1]
        elapsed == value[2]
    IN  IF status = None
        THEN [st EXCEPT ![host].errors = @ + 1]
        ELSE IF 200 <= status[1] /\ status[1] < 400
        THEN [st EXCEPT ![host].success = @ + 1,
                        ![host].times = <<elapsed[1]>>]
        ELSE IF 400 <= status[1] /\ status[1] < 600
        THEN [st EXCEPT ![host].failed = @ + 1]
        ELSE [st EXCEPT ![host].errors = @ + 1]

\* status 400 is taken for a success: <= 400 in place of < 400
FoldResult_SuccessTo400(st, host, value) ==
    LET status  == value[1]
        elapsed == value[2]
    IN  IF status = None
        THEN [st EXCEPT ![host].errors = @ + 1]
        ELSE IF 200 <= status[1] /\ status[1] <= 400
        THEN [st EXCEPT ![host].success = @ + 1,
                        ![host].times = Append(@, elapsed[1])]
        ELSE IF 400 <= status[1] /\ status[1] < 600
        THEN [st EXCEPT ![host].failed = @ + 1]
        ELSE [st EXCEPT ![host].errors = @ + 1]

\* lines 126-139: fold the result of one future of host
FoldResult(st, host, value) ==
    LET status  == value[1]
        elapsed == value[2]
    IN  IF status = None
        THEN [st EXCEPT ![host].errors = @ + 1]
        ELSE IF 200 <= status[1] /\ status[1] < 400
        THEN [st EXCEPT ![host].success = @ + 1,
                        ![host].times = Append(@, elapsed[1])]
        ELSE IF 400 <= status[1] /\ status[1] < 600
        THEN [st EXCEPT ![host].failed = @ + 1]
        ELSE [st EXCEPT ![host].errors = @ + 1]

----------------------------------------------------------------------------
(* print_stats *)

RECURSIVE Sum(_)
Sum(s) == IF s = <<>> THEN 0 ELSE Head(s) + Sum(Tail(s))

Min(s) == CHOOSE m \in Range(s) : \A x \in Range(s) : m <= x
Max(s) == CHOOSE m \in Range(s) : \A x \in Range(s) : m >= x

\* the keys of a dict built from the list hs, in insertion order
RECURSIVE Keys(_)
Keys(hs) ==
    IF hs = <<>> THEN <<>>
    ELSE LET front == Keys(SubSeq(hs, 1, Len(hs) - 1))
             last  == hs[Len(hs)]
         IN  IF last \in Range(front) THEN front ELSE Append(front, last)

\* "-" is shown unless there are at least two samples: > 1 in place of > 0
HostBlock_DashForSingle(host, data) ==
    [host |-> host, success |-> data.success, failed |-> data.failed,
     errors |-> data.errors,
     min |-> IF Len(data.times) > 1 THEN Some(Min(data.times)) ELSE None,
     max |-> IF Len(data.times) > 1 THEN Some(Max(data.times)) ELSE None,
     avg |-> IF Len(data.times) > 1
             THEN Some(<<Sum(data.times), Len(data.times)>>) ELSE None]

\* lines 40-55: the block of one host; None stands for "-", the average is
\* the pair of the sum and the number of samples
HostBlock(host, data) ==
    [host |-> host, success |-> data.success, failed |-> data.failed,
     errors |-> data.errors,
     min |-> IF data.times /= <<>> THEN Some(Min(data.times)) ELSE None,
     max |-> IF data.times /= <<>> THEN Some(Max(data.times)) ELSE None,
     avg |-> IF data.times /= <<>>
             THEN Some(<<Sum(data.times), Len(data.times)>>) ELSE None]

\* lines 37-67
print_stats(st, hs) ==
    LET keys == Keys(hs)
    IN  [i \in 1..Len(keys) |-> HostBlock(keys[i], st[keys[i]])]

----------------------------------------------------------------------------
(* One run of main() *)

InitFold ==
    /\ foldA = NewStats(<<UrlA, UrlB>>)
    /\ foldB = NewStats(<<UrlA, UrlB>>)
    /\ pending = <<>>
    /\ fed = 0

InitRun ==
    /\ \E c \in MinCount..MaxCount :
        /\ \E h \in HostsArgs(c), f \in {None, Some(HostFile)} :
              args = [hosts |-> h, file |-> f, count |-> c]
        /\ IF args.file = Some(HostFile)
           THEN fs \in FileSystems(c)
           ELSE fs = NoFile
    /\ pc = "check_modes"
    /\ hosts = <<>>
    /\ vi = 1
    /\ stats = <<>>
    /\ futures = <<>>
    /\ yielded = {}
    /\ out = <<>>
    /\ issued = 0
    /\ opened = 0
    /\ report = None

Init == InitRun /\ InitFold

\* the message is printed but main() does not return
CheckModes_NoReturn ==
    /\ pc = "check_modes"
    /\ IF Truthy(args.hosts) /\ Truthy(args.file)
       THEN out' = Append(out, MsgBothModes)
       ELSE out' = out
    /\ pc' = "load_hosts"
    /\ UNCHANGED <<args, fs, hosts, vi, stats, futures, yielded, issued,
                   opened, report, foldVars>>

\* lines 80-83
CheckModes ==
    /\ pc = "check_modes"
    /\ IF Truthy(args.hosts) /\ Truthy(args.file)
       THEN /\ out' = Append(out, MsgBothModes)
            /\ pc' = "exit"
       ELSE /\ pc' = "load_hosts"
            /\ out' = out
    /\ UNCHANGED <<args, fs, hosts, vi, stats, futures, yielded, issued,
                   opened, report, foldVars>>

\* lines 86-96, with load_hosts_from_file (lines 16-23)
LoadHosts ==
    /\ pc = "load_hosts"
    /\ IF Truthy(args.file)
       THEN /\ opened' = opened + 1
            /\ IF fs.readable
               THEN /\ hosts' = load_hosts_from_file(fs.text)
                    /\ pc' = "validate"
                    /\ out' = out
               ELSE /\ out' = Append(out, MsgFile(args.file[1]))
                    /\ pc' = "exit"
                    /\ hosts' = hosts
       ELSE IF Truthy(args.hosts)
       THEN /\ hosts' = Split(args.hosts[1], ",")
            /\ pc' = "validate"
            /\ UNCHANGED <<out, opened>>
       ELSE /\ out' = Append(out, MsgNoMode)
            /\ pc' = "exit"
            /\ UNCHANGED <<hosts, opened>>
    /\ UNCHANGED <<args, fs, vi, stats, futures, yielded, issued, report,
                   foldVars>>

\* the count is checked before the hosts are validated
ValidateHost_CountFirst ==
    /\ pc = "validate"
    /\ IF args.count < 1
       THEN /\ out' = Append(out, MsgCount)
            /\ pc' = "exit"
            /\ vi' = vi
       ELSE IF vi > Len(hosts)
       THEN /\ pc' = "check_count"
            /\ UNCHANGED <<vi, out>>
       ELSE IF ~validate_host(hosts[vi])
       THEN /\ out' = Append(out, MsgFormat(hosts[vi]))
            /\ pc' = "exit"
            /\ vi' = vi
       ELSE /\ vi' = vi + 1
            /\ UNCHANGED <<pc, out>>
    /\ UNCHANGED <<args, fs, hosts, stats, futures, yielded, issued, opened,
                   report, foldVars>>

\* the message is printed but the loop goes on
ValidateHost_NoReturn ==
    /\ pc = "validate"
    /\ IF vi > Len(hosts)
       THEN /\ pc' = "check_count"
            /\ UNCHANGED <<vi, out>>
       ELSE /\ out' = IF ~validate_host(hosts[vi])
                      THEN Append(out, MsgFormat(hosts[vi])) ELSE out
            /\ vi' = vi + 1
            /\ pc' = pc
    /\ UNCHANGED <<args, fs, hosts, stats, futures, yielded, issued, opened,
                   report, foldVars>>

\* lines 99-102: one iteration of the loop, or its end
ValidateHost ==
    /\ pc = "validate"
    /\ IF vi > Len(hosts)
       THEN /\ pc' = "check_count"
            /\ UNCHANGED <<vi, out>>
       ELSE IF ~validate_host(hosts[vi])
       THEN /\ out' = Append(out, MsgFormat(hosts[vi]))
            /\ pc' = "exit"
            /\ vi' = vi
       ELSE /\ vi' = vi + 1
            /\ UNCHANGED <<pc, out>>
    /\ UNCHANGED <<args, fs, hosts, stats, futures, yielded, issued, opened,
                   report, foldVars>>

\* the message is printed but main() does not return
CheckCount_NoReturn ==
    /\ pc = "check_count"
    /\ out' = IF args.count < 1 THEN Append(out, MsgCount) ELSE out
    /\ pc' = "make_stats"
    /\ UNCHANGED <<args, fs, hosts, vi, stats, futures, yielded, issued,
                   opened, report, foldVars>>

\* a count of 0 passes: < 0 in place of < 1
CheckCount_ZeroPasses ==
    /\ pc = "check_count"
    /\ IF args.count < 0
       THEN /\ out' = Append(out, MsgCount)
            /\ pc' = "exit"
       ELSE /\ pc' = "make_stats"
            /\ out' = out
    /\ UNCHANGED <<args, fs, hosts, vi, stats, futures, yielded, issued,
                   opened, report, foldVars>>

\* lines 105-107
CheckCount ==
    /\ pc = "check_count"
    /\ IF args.count < 1
       THEN /\ out' = Append(out, MsgCount)
            /\ pc' = "exit"
       ELSE /\ pc' = "make_stats"
            /\ out' = out
    /\ UNCHANGED <<args, fs, hosts, vi, stats, futures, yielded, issued,
                   opened, report, foldVars>>

\* lines 110-113
MakeStats ==
    /\ pc = "make_stats"
    /\ stats' = NewStats(hosts)
    /\ pc' = "submit"
    /\ UNCHANGED <<args, fs, hosts, vi, futures, yielded, out, issued,
                   opened, report, foldVars>>

\* the host of the n-th future: for host in hosts for _ in range(count)
HostOfTask(n) == hosts[((n - 1) \div args.count) + 1]

\* the comprehension ends after one submit for each host
Submit_OnePerHost ==
    /\ pc = "submit"
    /\ IF Len(futures) < Len(hosts)
       THEN /\ futures' = Append(futures,
                            [host |-> hosts[Len(futures) + 1],
                             state |-> "PENDING", result |-> NoResult])
            /\ pc' = pc
       ELSE /\ pc' = "as_completed"
            /\ futures' = futures
    /\ UNCHANGED <<args, fs, hosts, vi, stats, yielded, out, issued, opened,
                   report, foldVars>>

\* lines 118-122: one pool.submit, or the end of the comprehension
Submit ==
    /\ pc = "submit"
    /\ IF Len(futures) < Len(hosts) * args.count
       THEN /\ futures' = Append(futures,
                            [host |-> HostOfTask(Len(futures) + 1),
                             state |-> "PENDING", result |-> NoResult])
            /\ pc' = pc
       ELSE /\ pc' = "as_completed"
            /\ futures' = futures
    /\ UNCHANGED <<args, fs, hosts, vi, stats, yielded, out, issued, opened,
                   report, foldVars>>

\* a worker thread takes the oldest work item off the queue and calls
\* perform_request, which calls requests.get (line 30)
StartTask ==
    /\ \E i \in 1..Len(futures) :
        /\ futures[i].state = "PENDING"
        /\ \A j \in 1..(i - 1) : futures[j].state /= "PENDING"
        /\ futures' = [futures EXCEPT ![i].state = "RUNNING"]
    /\ issued' = issued + 1
    /\ UNCHANGED <<args, fs, pc, hosts, vi, stats, yielded, out, opened,
                   report, foldVars>>

\* the worker thread counts its own result in stats, next to the main loop
FinishTask_WorkerCounts ==
    /\ \E i \in 1..Len(futures), o \in RunOutcomes :
        /\ futures[i].state = "RUNNING"
        /\ futures' = [futures EXCEPT ![i].state = "FINISHED",
                                      ![i].result = perform_request(o)]
        /\ stats' = FoldResult(stats, futures[i].host,
                               perform_request(o).value)
    /\ UNCHANGED <<args, fs, pc, hosts, vi, yielded, out, issued, opened,
                   report, foldVars>>

\* lines 30-34: requests.get returns or raises, the future is finished
FinishTask ==
    /\ \E i \in 1..Len(futures), o \in RunOutcomes :
        /\ futures[i].state = "RUNNING"
        /\ futures' = [futures EXCEPT ![i].state = "FINISHED",
                                      ![i].result = perform_request(o)]
    /\ UNCHANGED <<args, fs, pc, hosts, vi, stats, yielded, out, issued,
                   opened, report, foldVars>>

\* line 131 returns from main() instead of continuing with the next future
Fold_ReturnOnError ==
    /\ pc = "as_completed"
    /\ IF yielded = 1..Len(futures)
       THEN /\ pc' = "print_stats"
            /\ UNCHANGED <<stats, yielded>>
       ELSE \E i \in (1..Len(futures)) \ yielded :
            /\ futures[i].state = "FINISHED"
            /\ yielded' = yielded \cup {i}
            /\ stats' = FoldResult(stats, futures[i].host,
                                   futures[i].result.value)
            /\ pc' = IF futures[i].result.value[1] = None THEN "exit" ELSE pc
    /\ UNCHANGED <<args, fs, hosts, vi, futures, out, issued, opened,
                   report, foldVars>>

\* a request that raised is put back on the work queue instead of counted
Fold_Retry ==
    /\ pc = "as_completed"
    /\ IF yielded = 1..Len(futures)
       THEN /\ pc' = "print_stats"
            /\ UNCHANGED <<stats, yielded, futures>>
       ELSE \E i \in (1..Len(futures)) \ yielded :
            /\ futures[i].state = "FINISHED"
            /\ IF futures[i].result.value[1] = None
               THEN /\ futures' = [futures EXCEPT ![i].state = "PENDING"]
                    /\ UNCHANGED <<stats, yielded, pc>>
               ELSE /\ yielded' = yielded \cup {i}
                    /\ stats' = FoldResult(stats, futures[i].host,
                                           futures[i].result.value)
                    /\ UNCHANGED <<futures, pc>>
    /\ UNCHANGED <<args, fs, hosts, vi, out, issued, opened, report,
                   foldVars>>

\* the loop ends as soon as no finished future is waiting to be folded
Fold_StopsEarly ==
    /\ pc = "as_completed"
    /\ IF \A i \in (1..Len(futures)) \ yielded :
              futures[i].state /= "FINISHED"
       THEN /\ pc' = "print_stats"
            /\ UNCHANGED <<stats, yielded>>
       ELSE \E i \in (1..Len(futures)) \ yielded :
            /\ futures[i].state = "FINISHED"
            /\ yielded' = yielded \cup {i}
            /\ IF futures[i].result.raised
               THEN /\ pc' = "traceback"
                    /\ stats' = stats
               ELSE /\ stats' = FoldResult(stats, futures[i].host,
                                           futures[i].result.value)
                    /\ pc' = pc
    /\ UNCHANGED <<args, fs, hosts, vi, futures, out, issued, opened,
                   report, foldVars>>

\* lines 125-139: as_completed yields a finished future and the body of the
\* loop folds it; when every future was yielded the loop and the with block
\* end.  future.result() re-raises what the call raised.
Fold ==
    /\ pc = "as_completed"
    /\ IF yielded = 1..Len(futures)
       THEN /\ pc' = "print_stats"
            /\ UNCHANGED <<stats, yielded>>
       ELSE \E i \in (1..Len(futures)) \ yielded :
            /\ futures[i].state = "FINISHED"
            /\ yielded' = yielded \cup {i}
            /\ IF futures[i].result.raised
               THEN /\ pc' = "traceback"
                    /\ stats' = stats
               ELSE /\ stats' = FoldResult(stats, futures[i].host,
                                           futures[i].result.value)
                    /\ pc' = pc
    /\ UNCHANGED <<args, fs, hosts, vi, futures, out, issued, opened,
                   report, foldVars>>

\* line 142
PrintStats ==
    /\ pc = "print_stats"
    /\ report' = Some(print_stats(stats, hosts))
    /\ pc' = "exit"
    /\ UNCHANGED <<args, fs, hosts, vi, stats, futures, yielded, out, issued,
                   opened, foldVars>>

Next ==
    \/ CheckModes
    \/ LoadHosts
    \/ ValidateHost
    \/ CheckCount
    \/ MakeStats
    \/ Submit
    \/ StartTask
    \/ FinishTask
    \/ Fold
    \/ PrintStats

Spec == Init /\ [][Next]_vars

\* the steps of the main thread
MainThread ==
    \/ CheckModes
    \/ LoadHosts
    \/ ValidateHost
    \/ CheckCount
    \/ MakeStats
    \/ Submit
    \/ Fold
    \/ PrintStats

\* The main thread keeps running, the pool runs every queued work item, and
\* every requests.get returns or raises (at the latest at its timeout of
\* line 30).
Fairness ==
    /\ WF_vars(MainThread)
    /\ WF_vars(StartTask)
    /\ WF_vars(FinishTask)

\* the input passes every check of lines 80-107 and asks for at most
\* MaxLiveTasks requests
LiveInput ==
    /\ ~(Truthy(args.hosts) /\ Truthy(args.file))
    /\ Truthy(args.hosts) \/ Truthy(args.file)
    /\ Truthy(args.file) => fs.readable
    /\ LET hs == IF Truthy(args.file)
                 THEN load_hosts_from_file(fs.text)
                 ELSE Split(args.hosts[1], ",")
       IN  /\ \A i \in 1..Len(hs) : validate_host(hs[i])
           /\ Len(hs) * args.count <= MaxLiveTasks

\* the runs of Init whose input passes every check
InitLive ==
    /\ \E c \in 1..MaxCount :
        /\ \E h \in HostsArgs(c), f \in {None, Some(HostFile)} :
              args = [hosts |-> h, file |-> f, count |-> c]
        /\ IF args.file = Some(HostFile)
           THEN fs \in FileSystems(c)
           ELSE fs = NoFile
    /\ LiveInput
    /\ pc = "check_modes"
    /\ hosts = <<>>
    /\ vi = 1
    /\ stats = <<>>
    /\ futures = <<>>
    /\ yielded = {}
    /\ out = <<>>
    /\ issued = 0
    /\ opened = 0
    /\ report = None
    /\ InitFold

SpecLive == InitLive /\ [][Next]_vars /\ Fairness

----------------------------------------------------------------------------
(* The fold of lines 126-139 on its own: the same results are folded into  *)
(* foldA in the order they arrive and into foldB in any other order.       *)

Targets == {UrlA, UrlB}

RemoveAt(s, i) == SubSeq(s, 1, i - 1) \o SubSeq(s, i + 1, Len(s))

\* a result arrives and is folded into foldA
Feed ==
    /\ fed < MaxFeed
    /\ \E t \in Targets, o \in Outcomes :
        LET value == perform_request(o).value
        IN  /\ foldA' = FoldResult(foldA, t, value)
            /\ pending' = Append(pending, [host |-> t, value |-> value])
    /\ fed' = fed + 1
    /\ UNCHANGED <<foldB, runVars>>

\* any one of the results foldB has not seen yet is folded into foldB
FoldOther ==
    /\ \E i \in 1..Len(pending) :
        /\ foldB' = FoldResult(foldB, pending[i].host, pending[i].value)
        /\ pending' = RemoveAt(pending, i)
    /\ UNCHANGED <<foldA, fed, runVars>>

InitIdle ==
    /\ args = [hosts |-> None, file |-> None, count |-> 1]
    /\ fs = NoFile
    /\ pc = "exit"
    /\ hosts = <<>>
    /\ vi = 1
    /\ stats = <<>>
    /\ futures = <<>>
    /\ yielded = {}
    /\ out = <<>>
    /\ issued = 0
    /\ opened = 0
    /\ report = None

InitHarness == InitIdle /\ InitFold

NextFold == Feed \/ FoldOther

SpecFold == InitHarness /\ [][NextFold]_vars

----------------------------------------------------------------------------
(* Vocabulary of the properties *)

Total(rec) == rec.success + rec.failed + rec.errors

RECURSIVE SumTotals(_, _)
SumTotals(st, keys) ==
    IF keys = {} THEN 0
    ELSE LET h == CHOOSE k \in keys : TRUE
         IN  Total(st[h]) + SumTotals(st, keys \ {h})

\* the run returned from main() after print_stats
Completed == pc = "exit" /\ report /= None

\* the futures of host h that the loop has folded
FoldedOf(h) == {i \in yielded : futures[i].host = h}

BothGiven == Truthy(args.hosts) /\ Truthy(args.file)
NeitherGiven == ~Truthy(args.hosts) /\ ~Truthy(args.file)

BadHosts == {i \in 1..Len(hosts) : ~validate_host(hosts[i])}
FirstBad == CHOOSE i \in BadHosts : \A j \in BadHosts : i <= j

IsErrorValue(value) ==
    \/ value[1] = None
    \/ value[1][1] < 200
    \/ value[1][1] >= 600

Count(s, x) == Cardinality({i \in 1..Len(s) : s[i] = x})
SameBag(s, t) == \A x \in Range(s) \cup Range(t) : Count(s, x) = Count(t, x)

----------------------------------------------------------------------------
(* C1 *)

\* C1: once a run that passed every check completes, the counters of all
\* targets sum to (number of targets) * count, and exactly that many results
\* were produced and folded.
C1_TotalIsTargetsTimesCount ==
    Completed =>
        /\ SumTotals(stats, DOMAIN stats)
             = Cardinality(DOMAIN stats) * args.count
        /\ Cardinality(yielded) = Cardinality(DOMAIN stats) * args.count
        /\ Len(futures) = Cardinality(DOMAIN stats) * args.count

----------------------------------------------------------------------------
(* C2 *)

\* C2: in every state the counters of a target sum to the number of its
\* folded futures, and once the run finished that sum does not exceed the
\* count, for every host list that passes validation, duplicates included.
C2_PerTargetWithinCount ==
    \A h \in DOMAIN stats :
        /\ Total(stats[h]) = Cardinality(FoldedOf(h))
        /\ Completed => Total(stats[h]) <= args.count

----------------------------------------------------------------------------
(* C3 *)

\* C3: in every state of the run the latency list of every target is as long
\* as its success counter.
C3_TimesMatchSuccess ==
    \A h \in DOMAIN stats : Len(stats[h].times) = stats[h].success

C3_Witness ==
    /\ Completed
    /\ \E h \in DOMAIN stats :
        /\ stats[h].success = 2
        /\ stats[h].times = <<2, 1>>
    /\ \E h \in DOMAIN stats : stats[h].success = 0 /\ stats[h].failed > 0

----------------------------------------------------------------------------
(* C4 *)

\* C4 as stated: once both folds have seen the same results, in whatever
\* order, the two records of every target are identical, latency sequence
\* included.
C4_SameRecordAnyOrder ==
    pending = <<>> => foldA = foldB

\* C4 as amended: once both folds have seen the same results, in whatever
\* order, the counters of every target are the same and the latency
\* sequences hold the same samples the same number of times; their order is
\* the order of arrival.
C4_SameCountersSameSamples ==
    pending = <<>> =>
        \A t \in Targets :
            /\ foldA[t].success = foldB[t].success
            /\ foldA[t].failed = foldB[t].failed
            /\ foldA[t].errors = foldB[t].errors
            /\ SameBag(foldA[t].times, foldB[t].times)

C4_Witness ==
    /\ pending = <<>>
    /\ fed = MaxFeed
    /\ foldA[UrlA].times = <<1, 2>>
    /\ foldB[UrlA].times = <<2, 1>>
    /\ foldA[UrlA].failed + foldA[UrlA].errors = 1

----------------------------------------------------------------------------
(* C5 *)

\* what the fold of one result must do to the record of its target
FoldedAsClaimed(before, after, value) ==
    LET status == value[1]
    IN  /\ Total(after) = Total(before) + 1
        /\ after.success >= before.success
        /\ after.failed >= before.failed
        /\ after.errors >= before.errors
        /\ IF status /= None /\ status[1] \in 200..399
           THEN /\ after.success = before.success + 1
                /\ after.times = Append(before.times, value[2][1])
           ELSE IF status /= None /\ status[1] \in 400..599
           THEN /\ after.failed = before.failed + 1
                /\ after.times = before.times
           ELSE /\ after.errors = before.errors + 1
                /\ after.times = before.times

\* C5: every folded result increments exactly one counter of its own target
\* and leaves every other target alone: 200-399 counts as success and
\* appends the elapsed time, 400-599 counts as failed, no status or any
\* other status counts as an error, and neither of the two appends.
C5_FoldOneCounter ==
    [][fed' = fed + 1 =>
        LET item == pending'[Len(pending')]
        IN  /\ FoldedAsClaimed(foldA[item.host], foldA'[item.host],
                               item.value)
            /\ \A t \in Targets \ {item.host} : foldA'[t] = foldA[t]
            /\ DOMAIN foldA' = DOMAIN foldA]_vars

C5_Witness ==
    /\ fed = 3
    /\ foldA[UrlA] = [success |-> 1, failed |-> 1, errors |-> 1,
                      times |-> <<2>>]
    /\ foldA[UrlB] = [success |-> 0, failed |-> 0, errors |-> 0,
                      times |-> <<>>]

----------------------------------------------------------------------------
(* C6 *)

\* C6: when the host list holds a string that fails the format check, then
\* whatever the other entries, its position and the count, no request is
\* issued, no report is produced and the run ends with the one format error
\* that names the (first) offending string.
C6_MalformedAborts ==
    BadHosts /= {} =>
        /\ pc \in {"validate", "exit"}
        /\ issued = 0
        /\ futures = <<>>
        /\ report = None
        /\ pc = "exit" => out = <<MsgFormat(hosts[FirstBad])>>

C6_Witness ==
    /\ pc = "exit"
    /\ Len(hosts) = 2
    /\ BadHosts = {2}
    /\ args.count = 2
    /\ out = <<MsgFormat(EmbeddedSpace)>>

----------------------------------------------------------------------------
(* C7 *)

\* the host list the command line stands for
InputHosts ==
    IF Truthy(args.file) THEN load_hosts_from_file(fs.text)
    ELSE IF Truthy(args.hosts) THEN Split(args.hosts[1], ",")
    ELSE <<>>

\* the checks of the input modes and of the host file pass
InputLoads ==
    /\ ~BothGiven
    /\ ~NeitherGiven
    /\ Truthy(args.file) => fs.readable

\* every check before the check of the count passes
InputHostsValid ==
    /\ InputLoads
    /\ \A i \in 1..Len(InputHosts) : validate_host(InputHosts[i])

ConfigurationErrors ==
    {MsgBothModes, MsgNoMode, MsgCount, MsgFile(HostFile)}

\* C7 as stated: a count of 0 or less ends the run with a configuration
\* error and without any request.
C7_CountBelowOneIsConfigError ==
    (args.count < 1 /\ pc = "exit") =>
        /\ Len(out) = 1
        /\ out[1] \in ConfigurationErrors
        /\ issued = 0

\* C7 as amended: a count of 0 or less ends the run with one diagnostic, no
\* request and no report; the diagnostic is the configuration error of the
\* count when the checks before it (input modes, host file, URL format)
\* pass, and the error of the first of those checks that fails otherwise.
C7_CountBelowOneAborts ==
    args.count < 1 =>
        /\ issued = 0
        /\ futures = <<>>
        /\ report = None
        /\ pc = "exit" =>
            /\ Len(out) = 1
            /\ InputHostsValid <=> out = <<MsgCount>>

C7_Witness ==
    /\ pc = "exit"
    /\ args.count = 0
    /\ Len(hosts) = 2
    /\ out = <<MsgCount>>

----------------------------------------------------------------------------
(* C8 *)

\* C8 as stated: a run given both an inline list and a host file and a run
\* given neither end with the same message, the one of line 82, without a
\* request and without opening the host file.
C8_SameMessage ==
    (pc = "exit" /\ (BothGiven \/ NeitherGiven)) =>
        /\ out = <<MsgBothModes>>
        /\ issued = 0
        /\ opened = 0

\* C8 as amended: a run given both an inline list and a host file and a run
\* given neither both end with a configuration error, without a request and
\* without opening the host file, but each with a message of its own.
C8_OwnMessageEach ==
    (BothGiven \/ NeitherGiven) =>
        /\ issued = 0
        /\ opened = 0
        /\ futures = <<>>
        /\ report = None
        /\ pc = "exit" =>
            /\ BothGiven => out = <<MsgBothModes>>
            /\ NeitherGiven => out = <<MsgNoMode>>
        /\ MsgBothModes /= MsgNoMode

C8_Witness ==
    /\ pc = "exit"
    /\ BothGiven
    /\ fs.readable
    /\ fs.text /= <<>>
    /\ out = <<MsgBothModes>>

----------------------------------------------------------------------------
(* C9 *)

\* C9: no failure of a request stops the run: no future holds an exception
\* and the loop never re-raises one, every failed request is counted as an
\* error of its target, and a run that submitted its futures ends only
\* after all of them were folded and the report was produced.
C9_RequestFailuresAbsorbed ==
    /\ pc /= "traceback"
    /\ \A i \in 1..Len(futures) : ~futures[i].result.raised
    /\ \A h \in DOMAIN stats :
        stats[h].errors =
            Cardinality({i \in FoldedOf(h) :
                            IsErrorValue(futures[i].result.value)})
    /\ (pc = "exit" /\ stats /= <<>>) =>
        /\ report /= None
        /\ yielded = 1..Len(futures)
        /\ Len(futures) = Len(hosts) * args.count

C9_Witness ==
    /\ Completed
    /\ Len(futures) = 4
    /\ futures[1].result.value = <<None, None>>
    /\ futures[2].result.value = <<None, None>>
    /\ \E h \in DOMAIN stats : stats[h].errors = 2 /\ stats[h].success = 0
    /\ \E h \in DOMAIN stats : stats[h].errors = 0 /\ stats[h].success = 2

----------------------------------------------------------------------------
(* C10 *)

\* every check of the input passes
InputOK == InputHostsValid /\ args.count >= 1

\* C10: a run whose input fails a check prints exactly one diagnostic,
\* issues no request and produces no report; a run whose input passes
\* every check prints no diagnostic and produces the report.
C10_AbortOrReport ==
    /\ Len(out) <= 1
    /\ InputOK => out = <<>>
    /\ ~InputOK =>
        /\ issued = 0
        /\ futures = <<>>
        /\ report = None
    /\ pc = "exit" => IF InputOK THEN report /= None ELSE Len(out) = 1

C10_Witness ==
    /\ Completed
    /\ out = <<>>
    /\ Truthy(args.file)
    /\ \E h \in DOMAIN stats :
        stats[h].errors = 1 /\ stats[h].failed = 1 /\ stats[h].success = 0

----------------------------------------------------------------------------
(* C11 *)

\* the futures submitted for host h
TasksOf(h) == {i \in 1..Len(futures) : futures[i].host = h}

\* the outcome class of what a future holds
ClassOf(value) ==
    IF value[1] = None THEN "errors"
    ELSE IF value[1][1] \in 200..399 THEN "success"
    ELSE IF value[1][1] \in 400..599 THEN "failed"
    ELSE "errors"

AllOfClass(h, class) ==
    \A i \in TasksOf(h) : ClassOf(futures[i].result.value) = class

----------------------------------------------------------------------------
(* C12 *)

\* every future that is to be submitted was submitted, has finished and was
\* folded
AllFolded ==
    /\ Len(futures) = Len(hosts) * args.count
    /\ \A i \in 1..Len(futures) : futures[i].state = "FINISHED"
    /\ yielded = 1..Len(futures)

\* the report step has begun: main() is at line 142 or past it
Reporting == pc = "print_stats" \/ report /= None

\* C12: the report step begins only when every submitted future has
\* finished and was folded, never while one is pending, running or finished
\* but not folded, and the statistics do not change once it has begun.
C12_ReportAfterAllFolded ==
    /\ [](Reporting => AllFolded)
    /\ [][Reporting => (stats' = stats /\ futures' = futures
                        /\ yielded' = yielded)]_vars

C12_Witness ==
    /\ pc = "print_stats"
    /\ report = None
    /\ Len(futures) = 4
    /\ futures[4].result.value = <<Some(200), Some(1)>>
    /\ futures[1].result.value = <<Some(404), Some(1)>>

----------------------------------------------------------------------------
(* C13 *)

Started == {i \in 1..Len(futures) : futures[i].state /= "PENDING"}
Finished == {i \in 1..Len(futures) : futures[i].state = "FINISHED"}

\* C13: there is one future per host-list entry and repetition; each is
\* executed exactly once (one requests.get per started future, a finished
\* future never runs again) and its result is folded exactly once (as many
\* counter increments as yielded futures, every future yielded by the end),
\* whatever the outcomes and their order.
C13_ExactlyOnce ==
    /\ [](/\ issued = Cardinality(Started)
          /\ yielded \subseteq Finished
          /\ SumTotals(stats, DOMAIN stats) = Cardinality(yielded)
          /\ futures = <<>> \/ Len(futures) <= Len(hosts) * args.count
          /\ \A n \in 1..Len(futures) :
                futures[n].host = hosts[((n - 1) \div args.count) + 1]
          /\ Completed =>
                /\ Len(futures) = Len(hosts) * args.count
                /\ issued = Len(futures)
                /\ yielded = 1..Len(futures))
    /\ [][/\ Len(futures') >= Len(futures)
          /\ yielded \subseteq yielded'
          /\ issued' \in {issued, issued + 1}
          /\ \A i \in 1..Len(futures) :
                /\ futures'[i].host = futures[i].host
                /\ futures[i].state = "FINISHED" => futures'[i] = futures[i]
                /\ futures[i].state = "RUNNING" =>
                      futures'[i].state /= "PENDING"]_vars

C13_Witness ==
    /\ Completed
    /\ Len(futures) = 4
    /\ issued = 4
    /\ Len(hosts) = 2
    /\ futures[1].result.value = <<None, None>>
    /\ futures[2].result.value = <<Some(404), Some(1)>>
    /\ futures[3].result.value = <<Some(600), Some(2)>>

----------------------------------------------------------------------------
(* C14 *)

\* the step folds the result of exactly one finished future i into the
\* record of its host and does nothing else to the statistics
FoldsOne(i) ==
    /\ i \notin yielded
    /\ futures[i].state = "FINISHED"
    /\ yielded' = yielded \cup {i}
    /\ DOMAIN stats' = DOMAIN stats
    /\ Total(stats'[futures[i].host]) = Total(stats[futures[i].host]) + 1
    /\ \A g \in DOMAIN stats \ {futures[i].host} : stats'[g] = stats[g]

\* C14: the statistics have one writer.  A step that changes them is either
\* their creation or one step of the aggregation loop folding one finished
\* future; a step of a worker thread (a future starts or finishes) or a
\* submission leaves them alone; so in every interleaving the counters of a
\* target sum to the number of its folded futures, none lost, none twice.
C14_SingleWriter ==
    /\ [](\A h \in DOMAIN stats :
            Total(stats[h]) = Cardinality(FoldedOf(h)))
    /\ [][stats' /= stats =>
            \/ pc = "make_stats" /\ pc' = "submit"
            \/ /\ pc = "as_completed"
               /\ futures' = futures
               /\ issued' = issued
               /\ \E i \in 1..Len(futures) : FoldsOne(i)]_vars
    /\ [][(futures' /= futures \/ issued' /= issued) => stats' = stats]_vars

C14_Witness ==
    /\ pc = "as_completed"
    /\ Len(futures) = 4
    /\ yielded = {3}
    /\ futures[1].state = "RUNNING"
    /\ futures[2].state = "FINISHED"
    /\ futures[4].state = "RUNNING"
    /\ futures[3].host = futures[4].host
    /\ stats[futures[3].host].success = 1

----------------------------------------------------------------------------
(* C15 *)

\* C15: when every request eventually returns, a run whose input passes the
\* checks eventually completes and produces the report; nothing cancels the
\* run, so main() never returns while a submitted future is not finished.
C15_EventuallyReports ==
    /\ InputOK ~> Completed
    /\ [](pc = "exit" =>
            \A i \in 1..Len(futures) : futures[i].state = "FINISHED")

C15_Witness ==
    /\ Completed
    /\ InputOK
    /\ Len(futures) = 2
    /\ futures[1].host /= futures[2].host
    /\ \A i \in 1..2 : futures[i].result.value = <<None, None>>

----------------------------------------------------------------------------
(* C16 *)

\* the phase of the run: Idle 0, Dispatching 1, Aggregating 2, and 3 when
\* the run is complete or over
Phase ==
    IF pc \in {"check_modes", "load_hosts", "validate", "check_count",
               "make_stats"} THEN 0
    ELSE IF pc = "submit" THEN 1
    ELSE IF pc = "as_completed" THEN 2
    ELSE 3

FoldingStarted == yielded /= {}

\* C16: the phase of the run never moves back; when the first result is
\* folded, len(hosts) * count futures were submitted, and no future is
\* submitted once folding has started.
C16_PhasesForward ==
    /\ [][Phase' >= Phase]_vars
    /\ [](FoldingStarted => /\ Phase >= 2
                            /\ Len(futures) = Len(hosts) * args.count)
    /\ [][FoldingStarted => Len(futures') = Len(futures)]_vars
    /\ [][Len(futures') /= Len(futures) => Phase = 1 /\ Phase' = 1]_vars

C16_Witness ==
    /\ pc = "as_completed"
    /\ Cardinality(yielded) = 1
    /\ Len(futures) = Len(hosts) * args.count
    /\ Len(hosts) = 2
    /\ args.count = 2
    /\ futures[4].state = "PENDING"

----------------------------------------------------------------------------
(* C17 *)

ZeroRecord == [success |-> 0, failed |-> 0, errors |-> 0, times |-> <<>>]

\* stats was assigned (line 110)
StatsMade == pc \in {"submit", "as_completed", "print_stats", "traceback"}
             \/ Completed

\* C17: before the first submit, stats holds one zeroed record for each
\* distinct host; from then on its keys are the distinct hosts in every
\* state, a step never changes them, and the report has one block for each
\* distinct host.
C17_KeysAreTheTargets ==
    /\ []((pc = "submit" /\ futures = <<>>) =>
            /\ DOMAIN stats = Range(hosts)
            /\ \A h \in DOMAIN stats : stats[h] = ZeroRecord)
    /\ [](StatsMade => DOMAIN stats = Range(hosts))
    /\ [][StatsMade => DOMAIN stats' = DOMAIN stats]_vars
    /\ [](Completed =>
            /\ {report[1][i].host : i \in 1..Len(report[1])} = Range(hosts)
            /\ Len(report[1]) = Cardinality(Range(hosts)))

C17_Witness ==
    /\ Completed
    /\ Len(hosts) = 2
    /\ hosts[1] /= hosts[2]
    /\ args.count = 2
    /\ Len(report[1]) = 2
    /\ report[1][1].host = hosts[1]
    /\ report[1][1].success = 2
    /\ report[1][2].host = hosts[2]
    /\ report[1][2].failed = 2

----------------------------------------------------------------------------
(* C18 *)

\* the run passed the checks of lines 80-107
ReachedDispatch == StatsMade \/ pc = "make_stats"

\* C18: a run that passes the input checks and reaches dispatch has at
\* least one target, whether the targets come from the inline list or from
\* a host file.
C18_TargetsNonEmpty == ReachedDispatch => hosts /= <<>>

----------------------------------------------------------------------------
(* C19 *)

InputBad == {i \in 1..Len(InputHosts) : ~validate_host(InputHosts[i])}

\* the diagnostic of the first check that the input fails, in the order of
\* the claim; None when the input passes every check
ExpectedDiagnostic ==
    IF BothGiven THEN Some(MsgBothModes)
    ELSE IF Truthy(args.file) /\ ~fs.readable THEN Some(MsgFile(args.file[1]))
    ELSE IF NeitherGiven THEN Some(MsgNoMode)
    ELSE IF InputBad /= {}
    THEN Some(MsgFormat(InputHosts[CHOOSE i \in InputBad :
                                      \A j \in InputBad : i <= j]))
    ELSE IF args.count < 1 THEN Some(MsgCount)
    ELSE None

\* C19: the first check that fails, in the order both modes, host file
\* unreadable, no mode, first malformed host, count below 1, gives the only
\* diagnostic of the run; the run ends with the diagnostic, so no later
\* check runs: the loop stops at the first malformed host, and a run with
\* both modes given never opens the host file.
C19_FirstFailureDecides ==
    /\ [](Len(out) <= 1)
    /\ [](out /= <<>> => pc = "exit" /\ out = ExpectedDiagnostic)
    /\ [](pc = "exit" => out = ExpectedDiagnostic)
    /\ []((pc = "exit" /\ BadHosts /= {}) => vi = FirstBad)
    /\ [](BothGiven => opened = 0 /\ hosts = <<>>)
    /\ [][out /= <<>> => UNCHANGED vars]_vars

C19_Witness ==
    /\ pc = "exit"
    /\ Len(hosts) = 2
    /\ BadHosts = {2}
    /\ vi = 2
    /\ args.count < 1
    /\ out = <<MsgFormat(hosts[2])>>

====
